---- MODULE Spec2Model ----
(***************************************************************************)
(* Optimistic-mutation engine of plasmic-supabase:                         *)
(*   useOptimisticOperations   (the optimistic transforms and their        *)
(*                              selector)                                  *)
(*   useMutationWithOptimisticUpdates   (handleMutation, the coordinator)  *)
(*                                                                         *)
(* JavaScript values are encoded so that TLC can compare them:             *)
(*   - an optional value (T | null, T | undefined) is a sequence of        *)
(*     length 0 or 1: None == <<>>, Some(x) == <<x>>;                      *)
(*   - the value stored under the unique identifier field is a record      *)
(*     [t |-> typeof, v |-> payload];                                      *)
(*   - a cache snapshot is [absent, data, count]; absent = TRUE is the     *)
(*     JavaScript value undefined.                                         *)
(***************************************************************************)
EXTENDS Integers, Sequences, FiniteSets, TLC

(***************************************************************************)
(* Bounds of the model.                                                    *)
(***************************************************************************)
\* number of optimistic transforms applied in a row to one cache key
MaxSteps == 2

None == <<>>
Some(x) == <<x>>
IsSome(o) == o # <<>>

(***************************************************************************)
(* Values of row[uniqueIdentifierField].                                   *)
(***************************************************************************)
NumId(n) == [t |-> "number", v |-> n]
StrId(n) == [t |-> "string", v |-> n]
UndefId == [t |-> "undefined", v |-> 0]
\* an object; v is its reference: two object values are the same object when
\* they have the same reference
ObjId(ref) == [t |-> "object", v |-> ref]
ObjRefs == {1, 2}

ScalarIds == {NumId(1), StrId(1)}
IdVals == ScalarIds \cup {UndefId} \cup {ObjId(ref) : ref \in ObjRefs}

\* a === b on identifier values: the same type and the same value, for objects
\* the same reference.
StrictEq(a, b) == a.t = b.t /\ a.v = b.v

\* values of the column the order specification sorts by
Names == {1, 2}

\* A Row as the caller or the server supplies it: no optimistic stamp.
RawRow(id, name) == [id |-> id, name |-> name, optimisticId |-> 0, isOptimistic |-> FALSE]
ServerRows == {RawRow(i, n) : i \in ScalarIds, n \in Names}
CallerRows == {RawRow(i, n) : i \in IdVals, n \in Names}
\* a delete names the row by its identifier alone
CallerDeleteRows == {RawRow(i, 1) : i \in IdVals}

\* { ...row, optimisticId: uuid(), isOptimistic: true }
StampRow(row, token) == [row EXCEPT !.optimisticId = token, !.isOptimistic = TRUE]

(***************************************************************************)
(* Snapshots held by the cache: SupabaseProviderFetchResult | undefined.   *)
(***************************************************************************)
UndefinedSnapshot == [absent |-> TRUE, data |-> None, count |-> None]
NullSnapshot == [absent |-> FALSE, data |-> None, count |-> None]
Snapshot(rows, count) == [absent |-> FALSE, data |-> Some(rows), count |-> count]

\* currentData.data || []
DataOrEmpty(snap) == IF IsSome(snap.data) THEN snap.data[1] ELSE <<>>
\* currentData.count || 0
CountOrZero(snap) == IF IsSome(snap.count) THEN snap.count[1] ELSE 0
\* optimisticCount || null  (0 is falsy)
CountOrNull(c) == IF IsSome(c) /\ c[1] # 0 THEN c ELSE None

(***************************************************************************)
(* clientSideOrderBy(orderBy, rows): a stable sort of rows by the order    *)
(* specification, a sequence of [field, direction]; no entry, no sorting.  *)
(***************************************************************************)
SortKey(row, field) == IF field = "name" THEN row.name ELSE row.id.v

RECURSIVE RowLess(_, _, _)
RowLess(orderBy, a, b) ==
    IF orderBy = <<>> THEN FALSE
    ELSE LET o == Head(orderBy)
             ka == SortKey(a, o.field)
             kb == SortKey(b, o.field)
         IN IF ka # kb
            THEN IF o.direction = "asc" THEN ka < kb ELSE ka > kb
            ELSE RowLess(Tail(orderBy), a, b)

RECURSIVE InsertOrdered(_, _, _)
InsertOrdered(orderBy, sorted, row) ==
    IF sorted = <<>> THEN <<row>>
    ELSE IF RowLess(orderBy, row, Head(sorted))
         THEN <<row>> \o sorted
         ELSE <<Head(sorted)>> \o InsertOrdered(orderBy, Tail(sorted), row)

RECURSIVE SortFrom(_, _, _)
SortFrom(orderBy, sorted, rest) ==
    IF rest = <<>> THEN sorted
    ELSE SortFrom(orderBy, InsertOrdered(orderBy, sorted, Head(rest)), Tail(rest))

clientSideOrderBy(orderBy, rows) == SortFrom(orderBy, <<>>, rows)

IsOrdered(orderBy, rows) ==
    \A i \in 1..Len(rows) : \A j \in 1..Len(rows) :
        i < j => ~RowLess(orderBy, rows[j], rows[i])

OrderSpecs ==
    { <<>>,
      <<[field |-> "name", direction |-> "asc"]>>,
      <<[field |-> "name", direction |-> "desc"]>> }

ReturnCounts == {"exact", "none"}

(***************************************************************************)
(* Sequence helpers.                                                       *)
(***************************************************************************)
RECURSIVE FilterSeq(_, _)
\* rows.filter(row => row.id !== val)
FilterSeq(rows, val) ==
    IF rows = <<>> THEN <<>>
    ELSE IF StrictEq(Head(rows).id, val)
         THEN FilterSeq(Tail(rows), val)
         ELSE <<Head(rows)>> \o FilterSeq(Tail(rows), val)

Occurrences(rows, r) == Cardinality({i \in 1..Len(rows) : rows[i] = r})
RangeOf(rows) == {rows[i] : i \in 1..Len(rows)}

(***************************************************************************)
(* The optimistic transforms. Each returns [threw, snap]: threw = TRUE is  *)
(* the transform throwing, snap is then meaningless (the input).           *)
(***************************************************************************)
Returned(snap) == [threw |-> FALSE, snap |-> snap]
Thrown(snap) == [threw |-> TRUE, snap |-> snap]

returnUnchangedData_Cleared(currentData) == Returned(NullSnapshot)

returnUnchangedData(currentData) ==
    IF currentData.absent THEN Returned(NullSnapshot) ELSE Returned(currentData)

addRowOptimistically_NoCount(orderBy, returnCount, currentData, optimisticRow) ==
    Returned([absent |-> FALSE,
              data |-> Some(clientSideOrderBy(orderBy,
                           Append(DataOrEmpty(currentData), optimisticRow))),
              count |-> IF returnCount # "none" THEN Some(CountOrZero(currentData))
                        ELSE None])

addRowOptimistically(orderBy, returnCount, currentData, optimisticRow) ==
    Returned([absent |-> FALSE,
              data |-> Some(clientSideOrderBy(orderBy,
                           Append(DataOrEmpty(currentData), optimisticRow))),
              count |-> IF returnCount # "none" THEN Some(CountOrZero(currentData) + 1)
                        ELSE None])

editRowOptimistically_First(orderBy, idField, currentData, optimisticRow) ==
    IF currentData.absent THEN Returned(NullSnapshot)
    ELSE LET rows == DataOrEmpty(currentData)
         IN Returned([absent |-> FALSE,
                      data |-> Some(clientSideOrderBy(orderBy,
                                   [i \in 1..Len(rows) |->
                                       IF i = 1 THEN optimisticRow ELSE rows[i]])),
                      count |-> currentData.count])

editRowOptimistically(orderBy, idField, currentData, optimisticRow) ==
    IF currentData.absent THEN Returned(NullSnapshot)
    ELSE LET rows == DataOrEmpty(currentData)
         IN Returned([absent |-> FALSE,
                      data |-> Some(clientSideOrderBy(orderBy,
                                   [i \in 1..Len(rows) |->
                                       IF StrictEq(rows[i][idField], optimisticRow[idField])
                                       THEN optimisticRow ELSE rows[i]])),
                      count |-> currentData.count])

deleteRowOptimistically_KeepsRow(returnCount, idField, currentData, optimisticRow) ==
    IF currentData.absent THEN Returned(NullSnapshot)
    ELSE LET uniqueIdentifierVal == optimisticRow[idField]
         IN IF uniqueIdentifierVal.t \notin {"number", "string"}
            THEN Thrown(currentData)
            ELSE Returned([absent |-> FALSE,
                           data |-> Some(DataOrEmpty(currentData)),
                           count |-> IF returnCount # "none"
                                     THEN Some(CountOrZero(currentData) - 1)
                                     ELSE None])

deleteRowOptimistically_Guarded(returnCount, idField, currentData, optimisticRow) ==
    IF currentData.absent THEN Returned(NullSnapshot)
    ELSE LET uniqueIdentifierVal == optimisticRow[idField]
             rows == DataOrEmpty(currentData)
             kept == FilterSeq(rows, uniqueIdentifierVal)
         IN IF uniqueIdentifierVal.t \notin {"number", "string"}
            THEN Thrown(currentData)
            ELSE Returned([absent |-> FALSE,
                           data |-> Some(kept),
                           count |-> IF returnCount # "none"
                                     THEN Some(IF Len(kept) < Len(rows)
                                               THEN CountOrZero(currentData) - 1
                                               ELSE CountOrZero(currentData))
                                     ELSE None])

deleteRowOptimistically(returnCount, idField, currentData, optimisticRow) ==
    IF currentData.absent THEN Returned(NullSnapshot)
    ELSE LET uniqueIdentifierVal == optimisticRow[idField]
         IN IF uniqueIdentifierVal.t \notin {"number", "string"}
            THEN Thrown(currentData)
            ELSE Returned([absent |-> FALSE,
                           data |-> Some(FilterSeq(DataOrEmpty(currentData),
                                                   uniqueIdentifierVal)),
                           count |-> IF returnCount # "none"
                                     THEN Some(CountOrZero(currentData) - 1)
                                     ELSE None])

replaceDataOptimistically(currentData, optimisticData, optimisticCount) ==
    Returned([absent |-> FALSE,
              data |-> Some(optimisticData),
              count |-> CountOrNull(optimisticCount)])

(***************************************************************************)
(* chooseOptimisticFunction: the transform for a flexibleMutation or rpc   *)
(* call. A transform is named by the function the source selects.          *)
(* Returns [threw, func].                                                  *)
(***************************************************************************)
Undefined == "undefined"
OptimisticOperations == {"addRow", "editRow", "deleteRow", "replaceData"}

Chosen(func) == [threw |-> FALSE, func |-> func]
ChooseThrew == [threw |-> TRUE, func |-> "none"]

chooseOptimisticFunction_RowNotChecked(requestedOptimisticOperation, optimisticRowFinal, optimisticDataFinal, optimisticCount) ==
    CASE requestedOptimisticOperation = Undefined ->
            Chosen("returnUnchangedData")
      [] requestedOptimisticOperation = "addRow" ->
            Chosen(IF IsSome(optimisticRowFinal) THEN "addRowOptimistically"
                   ELSE "returnUnchangedData")
      [] requestedOptimisticOperation = "editRow" ->
            Chosen(IF IsSome(optimisticRowFinal) THEN "editRowOptimistically"
                   ELSE "returnUnchangedData")
      [] requestedOptimisticOperation = "deleteRow" ->
            Chosen("deleteRowOptimistically")
      [] requestedOptimisticOperation = "replaceData" ->
            Chosen(IF IsSome(optimisticDataFinal) THEN "replaceDataOptimistically"
                   ELSE "returnUnchangedData")
      [] OTHER -> ChooseThrew

chooseOptimisticFunction(requestedOptimisticOperation, optimisticRowFinal, optimisticDataFinal, optimisticCount) ==
    CASE requestedOptimisticOperation = Undefined ->
            Chosen("returnUnchangedData")
      [] requestedOptimisticOperation = "addRow" ->
            Chosen(IF IsSome(optimisticRowFinal) THEN "addRowOptimistically"
                   ELSE "returnUnchangedData")
      [] requestedOptimisticOperation = "editRow" ->
            Chosen(IF IsSome(optimisticRowFinal) THEN "editRowOptimistically"
                   ELSE "returnUnchangedData")
      [] requestedOptimisticOperation = "deleteRow" ->
            Chosen(IF IsSome(optimisticRowFinal) THEN "deleteRowOptimistically"
                   ELSE "returnUnchangedData")
      [] requestedOptimisticOperation = "replaceData" ->
            Chosen(IF IsSome(optimisticDataFinal) THEN "replaceDataOptimistically"
                   ELSE "returnUnchangedData")
      [] OTHER -> ChooseThrew

(***************************************************************************)
(* The producer handed to the cache:                                       *)
(*   optimisticData: (currentData) =>                                      *)
(*       optimisticFunc(currentData, optimisticRowFinal || undefined)      *)
(* A row transform is only ever selected together with a speculative row;  *)
(* the replace closure carries optimisticDataFinal and optimisticCount.    *)
(***************************************************************************)
ApplyOptimisticFunc(func, orderBy, rc, idField, currentData, optimisticRowFinal, optimisticDataFinal, optimisticCount) ==
    CASE func = "addRowOptimistically" ->
            addRowOptimistically(orderBy, rc, currentData, optimisticRowFinal[1])
      [] func = "editRowOptimistically" ->
            editRowOptimistically(orderBy, idField, currentData, optimisticRowFinal[1])
      [] func = "deleteRowOptimistically" ->
            deleteRowOptimistically(rc, idField, currentData, optimisticRowFinal[1])
      [] func = "replaceDataOptimistically" ->
            replaceDataOptimistically(currentData, optimisticDataFinal[1], optimisticCount)
      [] OTHER -> returnUnchangedData(currentData)

\* datasets and counts a caller passes for replaceData
CallerDatasets ==
    { <<>>, <<RawRow(NumId(1), 2), RawRow(StrId(1), 1)>> }
CallerCounts == {None, Some(0), Some(2)}

uniqueIdentifierField == "id"

\* uuid(): a token never handed out before
uuid(n) == n + 1

(***************************************************************************)
(* handleMutation: its parameters.                                         *)
(***************************************************************************)
MutationTypes == {"insert", "update", "delete", "flexibleMutation", "rpc"}
\* a mutationType outside MutationTypes, as untyped callers can pass
InvalidMutationType == "invalidMutation"
\* an optimisticOperation outside OptimisticOperations
InvalidOptimisticOperation == "invalidOperation"
EmptyString == ""

\* optimisticData?: Row | Rows
NoOptimisticData == [shape |-> "undefined", rows |-> <<>>]
OptimisticDataRow(row) == [shape |-> "row", rows |-> <<row>>]
OptimisticDataRows(rows) == [shape |-> "rows", rows |-> rows]

\* flexibleMutationSettings and rpcSettings of a call that does not use them
NoFlexibleSettings == [tableName |-> "", operation |-> "", optimisticOperation |-> Undefined]
NoRpcSettings == [rpcName |-> "", optimisticOperation |-> Undefined]

RequestedOperations ==
    OptimisticOperations \cup {Undefined, EmptyString, InvalidOptimisticOperation}

FlexibleSettings ==
    { [tableName |-> t[1], operation |-> t[2], optimisticOperation |-> op] :
        t \in {<<"people", "upsert">>, <<"", "upsert">>, <<"people", "invalidOperation">>},
        op \in RequestedOperations }

RpcSettings ==
    { [rpcName |-> n, optimisticOperation |-> op] :
        n \in {"", "procedure"}, op \in RequestedOperations }

\* speculative rows of a call: a scalar identifier, a non-scalar one
SpeculativeRows == {None, Some(RawRow(NumId(1), 2)), Some(RawRow(ObjId(1), 1))}
\* speculative datasets of a call: none, a single object without identifier, an array
SpeculativeData ==
    { NoOptimisticData,
      OptimisticDataRow(RawRow(UndefId, 2)),
      OptimisticDataRows(<<RawRow(StrId(1), 1)>>) }

BaseInputs(c) ==
    { [mutationType |-> "insert", dataForSupabase |-> c, customMetadata |-> c,
       returnImmediately |-> ri, optimisticRow |-> row, optimisticData |-> data,
       optimisticCount |-> cnt, flexibleMutationSettings |-> NoFlexibleSettings,
       rpcSettings |-> NoRpcSettings, dynamicSettingsValid |-> TRUE] :
        ri \in BOOLEAN, row \in SpeculativeRows, data \in SpeculativeData,
        cnt \in CallerCounts }

\* the parameter objects of the call with identity c (its payload and metadata)
Inputs(c) ==
    UNION { { [b EXCEPT !.mutationType = k] :
                k \in {"insert", "update", "delete", InvalidMutationType} }
            \cup { [b EXCEPT !.mutationType = "flexibleMutation",
                             !.flexibleMutationSettings = f,
                             !.dynamicSettingsValid = v] :
                     f \in FlexibleSettings, v \in BOOLEAN }
            \cup { [b EXCEPT !.mutationType = "rpc", !.rpcSettings = r,
                             !.dynamicSettingsValid = v] :
                     r \in RpcSettings, v \in BOOLEAN } : b \in BaseInputs(c) }

(***************************************************************************)
(* Helpers of the repository that handleMutation calls.                    *)
(***************************************************************************)
FlexibleMutationOperations == {"insert", "update", "upsert", "delete"}

\* TRUE when the validator returns, FALSE when it throws
validateFlexibleMutationSettings(settings) ==
    settings.tableName # "" /\ settings.operation \in FlexibleMutationOperations

\* TRUE when the validator returns, FALSE when it throws; what it checks is an
\* input of the model
validateDynamicOptimisticSettings(in) == in.dynamicSettingsValid

getMutationPhrases(mutationType) ==
    [inProgress |-> <<mutationType, "in progress">>,
     success |-> <<mutationType, "success">>,
     error |-> <<mutationType, "error">>]

buildSupabaseProviderError(err, actionAttempted, summary, dataForSupabase, optimisticData, customMetadata) ==
    [cause |-> err, actionAttempted |-> actionAttempted, summary |-> summary,
     dataForSupabase |-> dataForSupabase, optimisticData |-> optimisticData,
     customMetadata |-> customMetadata]

(***************************************************************************)
(* The synchronous part of handleMutation (the promise executor), as       *)
(* operators of the call's parameters.                                     *)
(***************************************************************************)
NormalizeOperation_Kept(op) == op

\* if (settings?.optimisticOperation === "") settings.optimisticOperation = undefined
NormalizeOperation(op) == IF op = EmptyString THEN Undefined ELSE op

RequestedOperation(in) ==
    IF in.mutationType = "flexibleMutation"
    THEN NormalizeOperation(in.flexibleMutationSettings.optimisticOperation)
    ELSE IF in.mutationType = "rpc"
         THEN NormalizeOperation(in.rpcSettings.optimisticOperation)
         ELSE Undefined

\* what the validation of the settings throws, "none" when it returns
ValidationError(in) ==
    IF in.mutationType = "flexibleMutation"
    THEN IF ~validateFlexibleMutationSettings(in.flexibleMutationSettings)
         THEN "flexibleMutationSettings"
         ELSE IF ~validateDynamicOptimisticSettings(in)
              THEN "dynamicOptimisticSettings" ELSE "none"
    ELSE IF in.mutationType = "rpc"
         THEN IF in.rpcSettings.rpcName = "" THEN "rpcName"
              ELSE IF ~validateDynamicOptimisticSettings(in)
                   THEN "dynamicOptimisticSettings" ELSE "none"
         ELSE "none"

BothOptimisticInputs_ArrayOnly(in) ==
    IsSome(in.optimisticRow) /\ in.optimisticData.shape = "rows"

\* if (optimisticRow && optimisticData)
BothOptimisticInputs(in) ==
    IsSome(in.optimisticRow) /\ in.optimisticData.shape # "undefined"

Materialize_ObjectAsDataset(in, tokens) ==
    [optimisticRowFinal |-> IF IsSome(in.optimisticRow)
                            THEN Some(StampRow(in.optimisticRow[1], uuid(tokens)))
                            ELSE None,
     optimisticDataFinal |-> IF in.optimisticData.shape # "undefined"
                             THEN Some(in.optimisticData.rows) ELSE None,
     tokens |-> IF IsSome(in.optimisticRow) THEN tokens + 1 ELSE tokens]

\* optimisticRowFinal, optimisticDataFinal and the number of tokens drawn
Materialize(in, tokens) ==
    LET fromRow == IF IsSome(in.optimisticRow)
                   THEN Some(StampRow(in.optimisticRow[1], uuid(tokens))) ELSE None
        afterRow == IF IsSome(in.optimisticRow) THEN tokens + 1 ELSE tokens
    IN IF in.optimisticData.shape = "row"
       THEN [optimisticRowFinal |-> Some(StampRow(in.optimisticData.rows[1], uuid(afterRow))),
             optimisticDataFinal |-> None,
             tokens |-> afterRow + 1]
       ELSE [optimisticRowFinal |-> fromRow,
             optimisticDataFinal |-> IF in.optimisticData.shape = "rows"
                                     THEN Some(in.optimisticData.rows) ELSE None,
             tokens |-> afterRow]

\* optimisticRowFinal || optimisticDataFinal || null
OptimisticEcho(optimisticRowFinal, optimisticDataFinal) ==
    IF IsSome(optimisticRowFinal) THEN [shape |-> "row", rows |-> optimisticRowFinal]
    ELSE IF IsSome(optimisticDataFinal)
         THEN [shape |-> "rows", rows |-> optimisticDataFinal[1]]
         ELSE [shape |-> "null", rows |-> <<>>]

Envelope(in, m, status, data, count, summary, error) ==
    [data |-> data, count |-> count,
     optimisticData |-> OptimisticEcho(m.optimisticRowFinal, m.optimisticDataFinal),
     optimisticCount |-> CountOrNull(in.optimisticCount),
     dataForSupabase |-> in.dataForSupabase, action |-> in.mutationType,
     summary |-> summary, status |-> status, error |-> error,
     customMetadata |-> in.customMetadata]

PendingEnvelope(in, m) ==
    Envelope(in, m, "pending", None, None, getMutationPhrases(in.mutationType).inProgress, None)

\* response ? response.data : null
SuccessEnvelope(in, m, response) ==
    Envelope(in, m, "success",
             IF IsSome(response) THEN response[1].data ELSE None,
             IF IsSome(response) THEN response[1].count ELSE None,
             getMutationPhrases(in.mutationType).success, None)

ProviderError(in, m, err) ==
    buildSupabaseProviderError(err, in.mutationType,
        getMutationPhrases(in.mutationType).error, in.dataForSupabase,
        OptimisticEcho(m.optimisticRowFinal, m.optimisticDataFinal), in.customMetadata)

ErrorEnvelope(in, m, err) ==
    Envelope(in, m, "error", None, None, getMutationPhrases(in.mutationType).error,
             Some(ProviderError(in, m, err)))

\* switch (mutationType): [threw, mutatorFunction, optimisticFunc]
Dispatch(in, m) ==
    LET rowFunc(f) == IF IsSome(m.optimisticRowFinal) THEN f ELSE "returnUnchangedData"
        chosen == chooseOptimisticFunction(RequestedOperation(in), m.optimisticRowFinal,
                      m.optimisticDataFinal, in.optimisticCount)
        selected(mutator, f) ==
            [threw |-> "none", mutatorFunction |-> mutator, optimisticFunc |-> f]
        dynamic(mutator) ==
            IF chosen.threw
            THEN [threw |-> "invalidOptimisticOperation", mutatorFunction |-> mutator,
                  optimisticFunc |-> "none"]
            ELSE selected(mutator, chosen.func)
    IN CASE in.mutationType = "insert" ->
               selected("addRowMutator", rowFunc("addRowOptimistically"))
         [] in.mutationType = "update" ->
               selected("editRowMutator", rowFunc("editRowOptimistically"))
         [] in.mutationType = "delete" ->
               selected("deleteRowMutator", rowFunc("deleteRowOptimistically"))
         [] in.mutationType = "flexibleMutation" -> dynamic("flexibleMutator")
         [] in.mutationType = "rpc" -> dynamic("runRpc")
         [] OTHER -> [threw |-> "invalidOperation", mutatorFunction |-> "none",
                      optimisticFunc |-> "none"]

(***************************************************************************)
(* Promises.                                                               *)
(***************************************************************************)
UnsettledPromise == [state |-> "unsettled", value |-> None, resolveCalls |-> 0]

\* resolve(value): settles an unsettled promise, no effect on a settled one
Resolve(p, value) ==
    [state |-> IF p.state = "unsettled" THEN "fulfilled" ELSE p.state,
     value |-> IF p.state = "unsettled" THEN Some(value) ELSE p.value,
     resolveCalls |-> p.resolveCalls + 1]

\* the executor throwing: rejects an unsettled promise, no effect on a settled one
RejectByThrow(p) ==
    [p EXCEPT !.state = IF p.state = "unsettled" THEN "rejected" ELSE p.state]

(***************************************************************************)
(* State.                                                                  *)
(***************************************************************************)
VARIABLES
    memoizedOrderBy,        \* hook parameter: the active order specification
    returnCount,            \* hook parameter: the count tracking mode
    cache,                  \* the snapshot the cache holds for the query key
    uuidCount,              \* number of tokens uuid() has handed out
    optimisticStep,         \* the last optimistic application on the cache:
                            \* [func, before, row, threw, n]
    isMutating,             \* the hook's exposed state
    call,                   \* per handleMutation call: its closure and progress
    promise,                \* per call: the promise handleMutation returned
    backend,                \* per call: the real mutation
    onMutateSuccessCalls,   \* per call: arguments memoizedOnMutateSuccess got
    onErrorCalls,           \* per call: arguments memoizedOnError got
    selection               \* the last direct call of chooseOptimisticFunction:
                            \* its arguments and what it returned

hookVars == <<memoizedOrderBy, returnCount, selection>>
transformVars == <<cache, uuidCount, optimisticStep>>
callVars == <<isMutating, call, promise, backend, onMutateSuccessCalls, onErrorCalls>>

NoStep == [func |-> "none", before |-> UndefinedSnapshot, row |-> None,
           threw |-> FALSE, n |-> 0]

NoSelection ==
    [called |-> FALSE, requestedOptimisticOperation |-> Undefined,
     optimisticRowFinal |-> None, optimisticDataFinal |-> None,
     optimisticCount |-> None, result |-> ChooseThrew]
(***************************************************************************)
(* Snapshots a fetch from the server leaves in the cache: rows with        *)
(* distinct scalar identifiers, ordered by the order specification, and    *)
(* the count of the rows when count tracking is on.                        *)
(***************************************************************************)
DistinctIds(rows) ==
    \A i \in 1..Len(rows) : \A j \in 1..Len(rows) :
        i # j => ~StrictEq(rows[i].id, rows[j].id)

FetchedRows(orderBy) ==
    UNION { { rows \in [1..n -> ServerRows] :
                DistinctIds(rows) /\ IsOrdered(orderBy, rows) } :
            n \in 0..Cardinality(ScalarIds) }

FetchedSnapshots(orderBy, rc) ==
    { Snapshot(rows, IF rc = "none" THEN None ELSE Some(Len(rows))) :
        rows \in FetchedRows(orderBy) }

InitialSnapshots(orderBy, rc) ==
    {UndefinedSnapshot, NullSnapshot} \cup FetchedSnapshots(orderBy, rc)

(***************************************************************************)
(* The transforms as the cache applies them to its snapshot. The row is    *)
(* stamped as handleMutation stamps it before it reaches a transform.      *)
(***************************************************************************)
Applied(func, row, data, count) ==
    LET res == ApplyOptimisticFunc(func, memoizedOrderBy, returnCount,
                                   uniqueIdentifierField, cache, row, data, count)
    IN /\ optimisticStep.n < MaxSteps
       /\ cache' = IF res.threw THEN cache ELSE res.snap
       /\ optimisticStep' = [func |-> func, before |-> cache, row |-> row,
                             threw |-> res.threw, n |-> optimisticStep.n + 1]
       /\ uuidCount' = IF IsSome(row) THEN uuidCount + 1 ELSE uuidCount
       /\ UNCHANGED <<hookVars, callVars>>

ApplyAddRow(row) ==
    Applied("addRowOptimistically", Some(StampRow(row, uuid(uuidCount))), None, None)

ApplyEditRow(row) ==
    Applied("editRowOptimistically", Some(StampRow(row, uuid(uuidCount))), None, None)

ApplyDeleteRow(row) ==
    Applied("deleteRowOptimistically", Some(StampRow(row, uuid(uuidCount))), None, None)

ApplyReplaceData(data, count) ==
    Applied("replaceDataOptimistically", None, Some(data), count)

ApplyUnchanged ==
    Applied("returnUnchangedData", None, None, None)

\* no handleMutation call: the transforms alone
NoCalls == [c \in {} |-> 0]

TransformInit ==
    /\ memoizedOrderBy \in OrderSpecs
    /\ returnCount \in ReturnCounts
    /\ cache \in InitialSnapshots(memoizedOrderBy, returnCount)
    /\ uuidCount = 0
    /\ optimisticStep = NoStep
    /\ isMutating = FALSE
    /\ call = NoCalls
    /\ promise = NoCalls
    /\ backend = NoCalls
    /\ onMutateSuccessCalls = NoCalls
    /\ onErrorCalls = NoCalls
    /\ selection = NoSelection

TransformNext ==
    \/ \E row \in CallerRows : ApplyAddRow(row)
    \/ \E row \in CallerRows : ApplyEditRow(row)
    \/ \E row \in CallerDeleteRows : ApplyDeleteRow(row)
    \/ \E data \in CallerDatasets, count \in CallerCounts : ApplyReplaceData(data, count)
    \/ ApplyUnchanged

vars == <<memoizedOrderBy, returnCount, cache, uuidCount, optimisticStep, isMutating, call, promise, backend, onMutateSuccessCalls, onErrorCalls, selection>>

TransformSpec == TransformInit /\ [][TransformNext]_vars

(***************************************************************************)
(* handleMutation and the asynchronous steps that follow it.               *)
(*                                                                         *)
(* phase of a call:                                                        *)
(*   idle          not called yet                                          *)
(*   threw         the executor threw; nothing of the call is left to run  *)
(*   inflight      cache.mutate awaits the real mutation                   *)
(*   revalidating  the real mutation has settled; cache.mutate awaits the  *)
(*                 refetch that revalidate asks for                        *)
(*   thenPending   cache.mutate resolved; the .then handler is queued      *)
(*   catchPending  the chain rejected; the .catch handler is queued        *)
(*   done          the handlers have run                                   *)
(* committed is the snapshot the cache held when mutate was called,        *)
(* optimistic the snapshot the optimistic producer handed back to it,      *)
(* refetched the snapshot the refetch of the call brought.                 *)
(***************************************************************************)
NoMutateOptions == [populateCache |-> FALSE, revalidate |-> FALSE, rollbackOnError |-> FALSE]
MutateOptions_NoRollback == [populateCache |-> FALSE, revalidate |-> TRUE, rollbackOnError |-> FALSE]

\* { populateCache: false, revalidate: true, rollbackOnError: true }
MutateOptions == [populateCache |-> FALSE, revalidate |-> TRUE, rollbackOnError |-> TRUE]

NoMaterialized == [optimisticRowFinal |-> None, optimisticDataFinal |-> None, tokens |-> 0]

IdleCall(c) ==
    [phase |-> "idle", in |-> CHOOSE in \in Inputs(c) : TRUE, thrown |-> "none",
     materialized |-> NoMaterialized, mutatorFunction |-> "none",
     optimisticFunc |-> "none", mutateCalls |-> 0, mutateOptions |-> NoMutateOptions,
     committed |-> UndefinedSnapshot, optimistic |-> UndefinedSnapshot,
     refetched |-> UndefinedSnapshot,
     settled |-> "none", response |-> None,
     err |-> "none", callbackThrew |-> {}]

IdleBackend == [invocations |-> 0, state |-> "none"]

\* what the real mutation resolves with: undefined, or {data, count}
Responses ==
    { None,
      Some([data |-> Some(<<RawRow(NumId(1), 2)>>), count |-> Some(1)]),
      Some([data |-> None, count |-> None]) }

\* the executor threw error e after it had (or had not) resolved the promise
ExecutorThrows(c, in, e, m, p) ==
    /\ call' = [call EXCEPT ![c] = [@ EXCEPT !.phase = "threw", !.in = in,
                                              !.thrown = e, !.materialized = m]]
    /\ promise' = [promise EXCEPT ![c] = RejectByThrow(p)]
    /\ uuidCount' = m.tokens
    /\ UNCHANGED <<cache, optimisticStep, backend, onMutateSuccessCalls, onErrorCalls>>

\* mutate(mutatorFunction({dataForSupabase, shouldReturnRow}), {...}): the argument
\* is evaluated first, which starts the real mutation; the cache then applies the
\* optimistic producer to its snapshot before it awaits the mutation. A producer
\* that throws makes mutate's promise reject and leaves the cache as it was.
CallsMutate(c, in, m, d, p) ==
    LET res == ApplyOptimisticFunc(d.optimisticFunc, memoizedOrderBy, returnCount,
                   uniqueIdentifierField, cache, m.optimisticRowFinal,
                   m.optimisticDataFinal, in.optimisticCount)
    IN /\ backend' = [backend EXCEPT ![c] =
                         [invocations |-> @.invocations + 1, state |-> "inflight"]]
       /\ call' = [call EXCEPT ![c] =
             [@ EXCEPT !.phase = IF res.threw THEN "catchPending" ELSE "inflight",
                       !.in = in, !.materialized = m,
                       !.mutatorFunction = d.mutatorFunction,
                       !.optimisticFunc = d.optimisticFunc,
                       !.mutateCalls = @ + 1,
                       !.mutateOptions = MutateOptions,
                       !.committed = cache,
                       !.optimistic = IF res.threw THEN cache ELSE res.snap,
                       !.settled = IF res.threw THEN "rejected" ELSE "none",
                       !.err = IF res.threw THEN "optimisticFunc" ELSE "none"]]
       /\ cache' = IF res.threw THEN cache ELSE res.snap
       /\ optimisticStep' = [func |-> d.optimisticFunc, before |-> cache,
                             row |-> m.optimisticRowFinal, threw |-> res.threw,
                             n |-> optimisticStep.n + 1]
       /\ promise' = [promise EXCEPT ![c] = p]
       /\ uuidCount' = m.tokens
       /\ UNCHANGED <<onMutateSuccessCalls, onErrorCalls>>

\* handleMutation(in): the whole promise executor, up to and including the
\* synchronous part of cache.mutate
HandleMutation(c, in) ==
    /\ isMutating' = TRUE
    /\ UNCHANGED hookVars
    /\ LET invalid == ValidationError(in)
           m == Materialize(in, uuidCount)
           \* thrown before the materialization: no token drawn
           unmaterialized == [NoMaterialized EXCEPT !.tokens = uuidCount]
           d == Dispatch(in, m)
           p == IF in.returnImmediately
                THEN Resolve(promise[c], PendingEnvelope(in, m)) ELSE promise[c]
       IN IF invalid # "none"
          THEN ExecutorThrows(c, in, invalid, unmaterialized, promise[c])
          ELSE IF BothOptimisticInputs(in)
               THEN ExecutorThrows(c, in, "bothOptimisticInputs", unmaterialized,
                                   promise[c])
               ELSE IF d.threw # "none"
                    THEN ExecutorThrows(c, in, d.threw, m, p)
                    ELSE CallsMutate(c, in, m, d, p)

\* a fetched snapshot of two rows
FetchedSnapshot(rc) ==
    Snapshot(<<RawRow(NumId(1), 1), RawRow(StrId(1), 2)>>,
             IF rc = "none" THEN None ELSE Some(2))


\* a fetched snapshot whose row is identified by an object, the object a caller
\* gets hold of when it reads the row
ObjectKeyedSnapshot(rc) ==
    Snapshot(<<RawRow(ObjId(1), 2)>>, IF rc = "none" THEN None ELSE Some(1))

\* The real mutation settles. If cache.mutate awaits it, cache.mutate goes on:
\* on a rejection it rolls the snapshot back (rollbackOnError); on a resolution
\* it keeps the optimistic snapshot (populateCache is false). With revalidate
\* it then refetches before its promise settles, else its promise settles now.
BackendSettles(c, ok, response) ==
    /\ backend[c].state = "inflight"
    /\ backend' = [backend EXCEPT ![c].state = IF ok THEN "resolved" ELSE "rejected"]
    /\ IF call[c].phase = "inflight"
       THEN /\ call' = [call EXCEPT ![c] =
                  [@ EXCEPT !.phase = IF call[c].mutateOptions.revalidate
                                      THEN "revalidating"
                                      ELSE IF ok THEN "thenPending" ELSE "catchPending",
                            !.settled = IF ok THEN "resolved" ELSE "rejected",
                            !.response = IF ok THEN response ELSE None,
                            !.err = IF ok THEN "none" ELSE "backend"]]
            /\ cache' = IF ~ok /\ call[c].mutateOptions.rollbackOnError
                        THEN call[c].committed ELSE cache
       ELSE UNCHANGED <<call, cache>>
    /\ UNCHANGED <<hookVars, uuidCount, optimisticStep, isMutating, promise,
                   onMutateSuccessCalls, onErrorCalls>>

\* what the server holds when the cache refetches: rows without optimistic
\* stamp, which need not be the rows the cache fetched before
RefetchedSnapshots(rc) == {FetchedSnapshot(rc), ObjectKeyedSnapshot(rc)}

\* The refetch that revalidate asked for comes back: the cache holds the
\* server's rows, and the promise of cache.mutate settles with the outcome of
\* the real mutation.
Revalidates(c, fetched) ==
    /\ call[c].phase = "revalidating"
    /\ cache' = fetched
    /\ call' = [call EXCEPT ![c] =
          [@ EXCEPT !.phase = IF call[c].settled = "resolved"
                              THEN "thenPending" ELSE "catchPending",
                    !.refetched = fetched]]
    /\ UNCHANGED <<hookVars, uuidCount, optimisticStep, isMutating, promise, backend,
                   onMutateSuccessCalls, onErrorCalls>>

\* .then((response) => {...}): builds the success envelope, calls
\* memoizedOnMutateSuccess, resolves unless returnImmediately. A callback that
\* throws rejects the chain, which the .catch handler receives.
ThenHandler(c, callbackThrows) ==
    /\ call[c].phase = "thenPending"
    /\ LET in == call[c].in
           result == SuccessEnvelope(in, call[c].materialized, call[c].response)
       IN /\ onMutateSuccessCalls' =
                [onMutateSuccessCalls EXCEPT ![c] = Append(@, result)]
          /\ IF callbackThrows
             THEN /\ call' = [call EXCEPT ![c] =
                        [@ EXCEPT !.phase = "catchPending", !.err = "onMutateSuccess",
                                  !.callbackThrew = @ \cup {"onMutateSuccess"}]]
                  /\ UNCHANGED promise
             ELSE /\ call' = [call EXCEPT ![c].phase = "done"]
                  /\ promise' = IF in.returnImmediately THEN promise
                                ELSE [promise EXCEPT ![c] = Resolve(@, result)]
    /\ UNCHANGED <<hookVars, transformVars, isMutating, backend, onErrorCalls>>

\* .catch((err) => {...}): builds the error, calls memoizedOnError, resolves with
\* the error envelope unless returnImmediately. A callback that throws leaves
\* the handler before it resolves.
CatchHandler(c, callbackThrows) ==
    /\ call[c].phase = "catchPending"
    /\ LET in == call[c].in
           m == call[c].materialized
       IN /\ onErrorCalls' =
                [onErrorCalls EXCEPT ![c] = Append(@, ProviderError(in, m, call[c].err))]
          /\ call' = [call EXCEPT ![c] =
                [@ EXCEPT !.phase = "done",
                          !.callbackThrew = IF callbackThrows THEN @ \cup {"onError"}
                                            ELSE @]]
          /\ promise' = IF callbackThrows \/ in.returnImmediately THEN promise
                        ELSE [promise EXCEPT ![c] =
                                 Resolve(@, ErrorEnvelope(in, m, call[c].err))]
    /\ UNCHANGED <<hookVars, transformVars, isMutating, backend, onMutateSuccessCalls>>

\* setIsMutating(value): the state setter the hook returns next to
\* handleMutation and isMutating; its owner may call it at any time
SetIsMutating(value) ==
    /\ isMutating' = value
    /\ UNCHANGED <<hookVars, transformVars, call, promise, backend,
                   onMutateSuccessCalls, onErrorCalls>>

\* one handleMutation call on a cache key that holds no snapshot yet or a
\* fetched one
CallIds == {1}


Init ==
    /\ memoizedOrderBy = <<[field |-> "name", direction |-> "asc"]>>
    /\ returnCount \in ReturnCounts
    /\ cache \in {UndefinedSnapshot, FetchedSnapshot(returnCount),
                  ObjectKeyedSnapshot(returnCount)}
    /\ uuidCount = 0
    /\ optimisticStep = NoStep
    /\ isMutating = FALSE
    /\ call = [c \in CallIds |-> IdleCall(c)]
    /\ promise = [c \in CallIds |-> UnsettledPromise]
    /\ backend = [c \in CallIds |-> IdleBackend]
    /\ onMutateSuccessCalls = [c \in CallIds |-> <<>>]
    /\ onErrorCalls = [c \in CallIds |-> <<>>]
    /\ selection = NoSelection

Next ==
    \/ \E c \in DOMAIN call :
          call[c].phase = "idle" /\ \E in \in Inputs(c) : HandleMutation(c, in)
    \/ \E c \in DOMAIN call : \E response \in Responses : BackendSettles(c, TRUE, response)
    \/ \E c \in DOMAIN call : BackendSettles(c, FALSE, None)
    \/ \E c \in DOMAIN call :
          \E fetched \in RefetchedSnapshots(returnCount) : Revalidates(c, fetched)
    \/ \E c \in DOMAIN call : \E callbackThrows \in BOOLEAN : ThenHandler(c, callbackThrows)
    \/ \E c \in DOMAIN call : \E callbackThrows \in BOOLEAN : CatchHandler(c, callbackThrows)
    \/ \E value \in BOOLEAN : SetIsMutating(value)

Spec == Init /\ [][Next]_vars

(***************************************************************************)
(* chooseOptimisticFunction called directly, as useOptimisticOperations    *)
(* returns it: every combination of requested operation, speculative row,  *)
(* speculative dataset and count.                                          *)
(***************************************************************************)
ChooseRows ==
    { None, Some(StampRow(RawRow(NumId(1), 2), uuid(0))),
      Some(StampRow(RawRow(ObjId(1), 1), uuid(0))) }
ChooseDatasets == {None} \cup {Some(d) : d \in CallerDatasets}

Choose(op, row, data, count) ==
    /\ selection' = [called |-> TRUE, requestedOptimisticOperation |-> op,
                     optimisticRowFinal |-> row, optimisticDataFinal |-> data,
                     optimisticCount |-> count,
                     result |-> chooseOptimisticFunction(op, row, data, count)]
    /\ UNCHANGED <<memoizedOrderBy, returnCount, transformVars, callVars>>

ChooseInit ==
    /\ memoizedOrderBy = <<[field |-> "name", direction |-> "asc"]>>
    /\ returnCount \in ReturnCounts
    /\ cache \in {UndefinedSnapshot, FetchedSnapshot(returnCount)}
    /\ uuidCount = 0
    /\ optimisticStep = NoStep
    /\ isMutating = FALSE
    /\ call = NoCalls
    /\ promise = NoCalls
    /\ backend = NoCalls
    /\ onMutateSuccessCalls = NoCalls
    /\ onErrorCalls = NoCalls
    /\ selection = NoSelection

ChooseNext ==
    \E op \in RequestedOperations, row \in ChooseRows, data \in ChooseDatasets,
       count \in CallerCounts : Choose(op, row, data, count)

ChooseSpec == ChooseInit /\ [][ChooseNext]_vars

(***************************************************************************)
(* Two handleMutation calls of one hook on one cache key, in any           *)
(* interleaving of their starts, settlements and handlers.                 *)
(***************************************************************************)
ConcurrentCallIds == {1, 2}

ConcurrentInputs(c) ==
    { [b EXCEPT !.mutationType = k] :
        k \in {"insert", "delete"},
        b \in { x \in BaseInputs(c) :
                  /\ x.optimisticCount = Some(2)
                  /\ x.optimisticRow # Some(RawRow(ObjId(1), 1)) } }

ConcurrentInit ==
    /\ memoizedOrderBy = <<[field |-> "name", direction |-> "asc"]>>
    /\ returnCount = "exact"
    /\ cache \in {UndefinedSnapshot, FetchedSnapshot(returnCount)}
    /\ uuidCount = 0
    /\ optimisticStep = NoStep
    /\ isMutating = FALSE
    /\ call = [c \in ConcurrentCallIds |-> IdleCall(c)]
    /\ promise = [c \in ConcurrentCallIds |-> UnsettledPromise]
    /\ backend = [c \in ConcurrentCallIds |-> IdleBackend]
    /\ onMutateSuccessCalls = [c \in ConcurrentCallIds |-> <<>>]
    /\ onErrorCalls = [c \in ConcurrentCallIds |-> <<>>]
    /\ selection = NoSelection

ConcurrentNext ==
    \/ \E c \in DOMAIN call :
          call[c].phase = "idle" /\ \E in \in ConcurrentInputs(c) : HandleMutation(c, in)
    \/ \E c \in DOMAIN call : \E response \in Responses : BackendSettles(c, TRUE, response)
    \/ \E c \in DOMAIN call : BackendSettles(c, FALSE, None)
    \/ \E c \in DOMAIN call : Revalidates(c, FetchedSnapshot(returnCount))
    \/ \E c \in DOMAIN call : \E callbackThrows \in BOOLEAN : ThenHandler(c, callbackThrows)
    \/ \E c \in DOMAIN call : \E callbackThrows \in BOOLEAN : CatchHandler(c, callbackThrows)
    \/ \E value \in BOOLEAN : SetIsMutating(value)

ConcurrentSpec == ConcurrentInit /\ [][ConcurrentNext]_vars

(***************************************************************************)
(* Properties of the transforms (TransformSpec). In a state reached by an  *)
(* optimistic application, optimisticStep.before is the snapshot the       *)
(* transform was given and cache is the snapshot it produced.              *)
(***************************************************************************)
StepRow == optimisticStep.row[1]
RowsBefore == DataOrEmpty(optimisticStep.before)
RowsAfter == DataOrEmpty(cache)
MatchingIndexes == {i \in 1..Len(RowsBefore) : StrictEq(RowsBefore[i].id, StepRow.id)}
AllRowsSeen == RangeOf(RowsBefore) \cup RangeOf(RowsAfter)
Tracked == returnCount # "none"

AddRowStep == optimisticStep.func = "addRowOptimistically"
EditRowStep == optimisticStep.func = "editRowOptimistically"
DeleteRowStep ==
    /\ optimisticStep.func = "deleteRowOptimistically"
    /\ ~optimisticStep.threw
    /\ ~optimisticStep.before.absent

\* C7: after an optimistic insert, for every prior snapshot, the snapshot holds
\* the speculative row exactly once and every prior row as often as before, is
\* ordered by the order specification, and its count is the prior count + 1 when
\* count is tracked and null when it is not.
C7_InsertSnapshot ==
    AddRowStep =>
        /\ ~cache.absent /\ IsSome(cache.data)
        /\ Occurrences(RowsAfter, StepRow) = 1
        /\ Len(RowsAfter) = Len(RowsBefore) + 1
        /\ \A r \in RangeOf(RowsBefore) :
              Occurrences(RowsAfter, r) = Occurrences(RowsBefore, r)
        /\ IsOrdered(memoizedOrderBy, RowsAfter)
        /\ cache.count = IF Tracked
                         THEN Some(CountOrZero(optimisticStep.before) + 1)
                         ELSE None

\* an insert into a snapshot of two rows that the sort moved to the front,
\* with count tracked
C7_Witness ==
    /\ AddRowStep
    /\ Tracked
    /\ memoizedOrderBy # <<>>
    /\ Len(RowsBefore) = 2
    /\ RowsAfter[1] = StepRow
    /\ cache.count = Some(3)

\* C8: after an optimistic delete whose identifier value matches a row of the
\* snapshot, no row with that value is left, the surviving rows are the other
\* rows in their prior order, and the count is the prior count - 1 when tracked;
\* when the value matches no row the rows are the prior rows.
C8_DeleteSnapshot ==
    DeleteRowStep =>
        /\ \A j \in 1..Len(RowsAfter) : ~StrictEq(RowsAfter[j].id, StepRow.id)
        /\ RowsAfter = SelectSeq(RowsBefore, LAMBDA r : ~StrictEq(r.id, StepRow.id))
        /\ MatchingIndexes # {} =>
              /\ Len(RowsAfter) < Len(RowsBefore)
              /\ cache.count = IF Tracked
                               THEN Some(CountOrZero(optimisticStep.before) - 1)
                               ELSE None
        /\ MatchingIndexes = {} => RowsAfter = RowsBefore

\* a delete that removed the middle row of three, count tracked
C8_Witness ==
    /\ DeleteRowStep
    /\ Tracked
    /\ Len(RowsBefore) = 3
    /\ MatchingIndexes = {2}
    /\ RowsAfter = <<RowsBefore[1], RowsBefore[3]>>
    /\ cache.count = Some(CountOrZero(optimisticStep.before) - 1)

\* C9: the optimistic delete decrements the tracked count whether or not a row
\* matched: when the identifier value matches no row the rows are unchanged and
\* the count is still the prior count - 1 (a prior count of null counting as 0),
\* so the count goes below zero.
C9_DeleteDecrementsUnconditionally ==
    (DeleteRowStep /\ Tracked /\ MatchingIndexes = {}) =>
        /\ RowsAfter = RowsBefore
        /\ cache.count = Some(CountOrZero(optimisticStep.before) - 1)

\* the second of two non-matching deletes on a snapshot whose count was 0
C9_Witness ==
    /\ DeleteRowStep /\ Tracked /\ MatchingIndexes = {}
    /\ optimisticStep.n = 2
    /\ optimisticStep.before.count = Some(0 - 1)
    /\ cache.count = Some(0 - 2)

\* the rows an edit is to produce, before sorting
EditedRows ==
    [i \in 1..Len(RowsBefore) |->
        IF i \in MatchingIndexes THEN StepRow ELSE RowsBefore[i]]

\* C10 as stated: every optimistic edit replaces exactly one row, the one whose
\* identifier value equals the speculative row's, keeps the number of rows and
\* the count, and leaves the rows sorted.
C10_EditReplacesExactlyOne ==
    EditRowStep =>
        /\ Cardinality(MatchingIndexes) = 1
        /\ Len(RowsAfter) = Len(RowsBefore)
        /\ \A r \in AllRowsSeen \cup {StepRow} :
              Occurrences(RowsAfter, r) = Occurrences(EditedRows, r)
        /\ cache.count = optimisticStep.before.count
        /\ IsOrdered(memoizedOrderBy, RowsAfter)

\* C10 amended: an optimistic edit replaces every row whose identifier value
\* equals the speculative row's by the speculative row (one row when the
\* identifiers of the snapshot are distinct and one matches, none when none
\* matches or there is no snapshot) and leaves every other row as it was; the
\* number of rows and the count are unchanged and the rows are sorted.
C10_EditReplacesMatching ==
    EditRowStep =>
        /\ Len(RowsAfter) = Len(RowsBefore)
        /\ \A r \in AllRowsSeen \cup {StepRow} :
              Occurrences(RowsAfter, r) = Occurrences(EditedRows, r)
        /\ (DistinctIds(RowsBefore) /\ MatchingIndexes # {}) =>
              /\ Cardinality(MatchingIndexes) = 1
              /\ Occurrences(RowsAfter, StepRow) = 1
        /\ MatchingIndexes = {} =>
              \A r \in AllRowsSeen : Occurrences(RowsAfter, r) = Occurrences(RowsBefore, r)
        /\ cache.count = optimisticStep.before.count
        /\ IsOrdered(memoizedOrderBy, RowsAfter)

\* an edit of the first of two rows that changed its sort key, so that the
\* edited row moved behind the other one
C10_Witness ==
    /\ EditRowStep
    /\ memoizedOrderBy # <<>>
    /\ Len(RowsBefore) = 2
    /\ MatchingIndexes = {1}
    /\ RowsAfter = <<RowsBefore[2], StepRow>>
    /\ cache.count = Some(2)

(***************************************************************************)
(* Properties of handleMutation (Spec).                                    *)
(***************************************************************************)
Started(c) == call[c].phase # "idle"
\* the executor ran to the end: validation passed and mutate was called
PassedValidation(c) == Started(c) /\ call[c].thrown = "none"
CallbackCount(c) == Len(onMutateSuccessCalls[c]) + Len(onErrorCalls[c])
PromiseEnvelope(c) == promise[c].value[1]
FinalRow(c) == call[c].materialized.optimisticRowFinal

\* C1: a call with returnImmediately that passes validation has its promise
\* fulfilled with the pending envelope from the moment handleMutation returns
\* (the real mutation has not settled then), resolve is called once and the
\* promise keeps the pending envelope; once the handlers have run, exactly one
\* callback invocation (success or error) has happened for the call.
C1_ReturnImmediately ==
    \A c \in DOMAIN call :
        (PassedValidation(c) /\ call[c].in.returnImmediately) =>
            /\ promise[c].state = "fulfilled"
            /\ promise[c].value =
                  Some(PendingEnvelope(call[c].in, call[c].materialized))
            /\ PromiseEnvelope(c).status = "pending"
            /\ promise[c].resolveCalls = 1
            /\ CallbackCount(c) <= 1
            /\ call[c].phase = "done" => CallbackCount(c) = 1

\* C2: when cache.mutate has rejected and the handlers have run, memoizedOnError
\* was called exactly once, with an error that carries the mutationType and the
\* dataForSupabase of the call, and, unless returnImmediately, the promise is
\* fulfilled (not rejected) with an envelope of status "error", data null and
\* count null.
C2_RejectionReported ==
    \A c \in DOMAIN call :
        (call[c].settled = "rejected" /\ call[c].phase = "done") =>
            /\ Len(onErrorCalls[c]) = 1
            /\ onErrorCalls[c][1].actionAttempted = call[c].in.mutationType
            /\ onErrorCalls[c][1].dataForSupabase = call[c].in.dataForSupabase
            /\ promise[c].state # "rejected"
            /\ ~call[c].in.returnImmediately =>
                  /\ promise[c].state = "fulfilled"
                  /\ PromiseEnvelope(c).status = "error"
                  /\ PromiseEnvelope(c).data = None
                  /\ PromiseEnvelope(c).count = None

\* C3: without returnImmediately, resolve is called at most once and only after
\* cache.mutate has settled; when cache.mutate resolved and the handlers have
\* run, the promise holds a "success" envelope with the data and count of the
\* response (null for an undefined response) that echoes the speculative data
\* and count, and memoizedOnMutateSuccess was called exactly once, with that
\* envelope.
C3_ResolvesAfterSettle ==
    \A c \in DOMAIN call :
        (PassedValidation(c) /\ ~call[c].in.returnImmediately) =>
            /\ promise[c].resolveCalls <= 1
            /\ promise[c].state # "unsettled" => call[c].settled # "none"
            /\ (call[c].settled = "resolved" /\ call[c].phase = "done") =>
                  /\ promise[c].state = "fulfilled"
                  /\ PromiseEnvelope(c).status = "success"
                  /\ PromiseEnvelope(c).data =
                        (IF IsSome(call[c].response) THEN call[c].response[1].data
                         ELSE None)
                  /\ PromiseEnvelope(c).count =
                        (IF IsSome(call[c].response) THEN call[c].response[1].count
                         ELSE None)
                  /\ PromiseEnvelope(c).optimisticData =
                        OptimisticEcho(FinalRow(c),
                                       call[c].materialized.optimisticDataFinal)
                  /\ PromiseEnvelope(c).optimisticCount = call[c].in.optimisticCount
                  /\ onMutateSuccessCalls[c] = <<PromiseEnvelope(c)>>

SuppliesBoth(c) ==
    /\ Started(c)
    /\ call[c].in.mutationType \in MutationTypes
    /\ IsSome(call[c].in.optimisticRow)
    /\ call[c].in.optimisticData.shape # "undefined"

\* C4: a call of any of the five mutation kinds that supplies optimisticRow and
\* optimisticData is rejected by handleMutation itself: its promise is rejected
\* without resolve ever being called, the mutator function and cache.mutate are
\* never called and no callback fires.
C4_BothInputsRejected ==
    \A c \in DOMAIN call :
        SuppliesBoth(c) =>
            /\ call[c].phase = "threw"
            /\ promise[c].state = "rejected"
            /\ promise[c].resolveCalls = 0
            /\ backend[c].invocations = 0
            /\ call[c].mutateCalls = 0
            /\ CallbackCount(c) = 0

\* an rpc call with valid settings and returnImmediately that supplied a row
\* and a single-object dataset, rejected by the both-inputs check
C4_Witness ==
    \E c \in DOMAIN call :
        /\ SuppliesBoth(c)
        /\ call[c].in.mutationType = "rpc"
        /\ call[c].in.returnImmediately
        /\ call[c].in.optimisticData.shape = "row"
        /\ call[c].thrown = "bothOptimisticInputs"
        /\ promise[c].state = "rejected"

\* the call is to delete optimistically by a speculative row whose identifier
\* value is missing or no string or number
DeletesByInvalidIdentifier(c) ==
    /\ PassedValidation(c)
    /\ \/ call[c].in.mutationType = "delete"
       \/ /\ call[c].in.mutationType \in {"flexibleMutation", "rpc"}
          /\ RequestedOperation(call[c].in) = "deleteRow"
    /\ IsSome(FinalRow(c))
    /\ FinalRow(c)[1][uniqueIdentifierField].t \notin {"number", "string"}

\* C5: a delete (or a flexible or rpc mutation with optimistic operation
\* deleteRow) by a speculative row whose identifier value is missing or no
\* string or number never has its mutator function called, and once its handlers
\* have run it has failed: the error callback was called and the success
\* callback was not.
C5_InvalidDeleteFailsBeforeBackend ==
    \A c \in DOMAIN call :
        DeletesByInvalidIdentifier(c) =>
            /\ backend[c].invocations = 0
            /\ call[c].phase = "done" =>
                  /\ Len(onErrorCalls[c]) = 1
                  /\ Len(onMutateSuccessCalls[c]) = 0

ConfigurationErrors ==
    {"rpcName", "flexibleMutationSettings", "dynamicOptimisticSettings",
     "invalidOperation", "invalidOptimisticOperation"}

\* C6: a call that raised a configuration error (missing rpcName, failed
\* validation of the flexible mutation, unrecognized mutation kind, unrecognized
\* optimistic operation) has its promise rejected, not fulfilled with any
\* envelope, and never calls the mutator function, cache.mutate or a callback.
C6_ConfigurationErrorsReject ==
    \A c \in DOMAIN call :
        call[c].thrown \in ConfigurationErrors =>
            /\ promise[c].state = "rejected"
            /\ promise[c].resolveCalls = 0
            /\ backend[c].invocations = 0
            /\ call[c].mutateCalls = 0
            /\ CallbackCount(c) = 0

(***************************************************************************)
(* Properties of the optimistic application inside handleMutation (Spec).  *)
(***************************************************************************)
NoSpeculativeInput(c) ==
    /\ PassedValidation(c)
    /\ call[c].in.optimisticRow = None
    /\ call[c].in.optimisticData = NoOptimisticData

IdentitySelected(c) ==
    PassedValidation(c) /\ call[c].optimisticFunc = "returnUnchangedData"

\* C11 as stated: a call without speculative input selects the identity
\* transform, and whenever the identity transform is selected the snapshot the
\* producer hands back to the cache is the snapshot the cache held.
C11_IdentityLeavesSnapshot ==
    \A c \in DOMAIN call :
        /\ NoSpeculativeInput(c) => IdentitySelected(c)
        /\ IdentitySelected(c) => call[c].optimistic = call[c].committed

\* C11 amended: a call without speculative input selects the identity
\* transform; when the identity transform is selected and the cache holds a
\* snapshot, the snapshot handed back is that snapshot (data, order, count), and
\* when the cache holds none (undefined) it is {data: null, count: null}.
C11_IdentityLeavesPresentSnapshot ==
    \A c \in DOMAIN call :
        /\ NoSpeculativeInput(c) => IdentitySelected(c)
        /\ IdentitySelected(c) =>
              /\ ~call[c].committed.absent =>
                    call[c].optimistic = call[c].committed
              /\ call[c].committed.absent => call[c].optimistic = NullSnapshot

\* a flexible mutation that asked for replaceData without a dataset, on a cache
\* that holds two rows: the identity transform handed the two rows back
C11_Witness ==
    \E c \in DOMAIN call :
        /\ NoSpeculativeInput(c)
        /\ call[c].in.mutationType = "flexibleMutation"
        /\ RequestedOperation(call[c].in) = "replaceData"
        /\ call[c].mutateCalls = 1
        /\ call[c].committed = FetchedSnapshot(returnCount)
        /\ call[c].optimistic = FetchedSnapshot(returnCount)

\* the call is a flexibleMutation or rpc whose optimisticOperation is ""
EmptyOperation(c) ==
    /\ Started(c)
    /\ \/ /\ call[c].in.mutationType = "flexibleMutation"
          /\ call[c].in.flexibleMutationSettings.optimisticOperation = EmptyString
       \/ /\ call[c].in.mutationType = "rpc"
          /\ call[c].in.rpcSettings.optimisticOperation = EmptyString

\* the same parameters with optimisticOperation undefined
WithUndefinedOperation(in) ==
    [in EXCEPT !.flexibleMutationSettings.optimisticOperation =
                   IF in.mutationType = "flexibleMutation" THEN Undefined ELSE @,
               !.rpcSettings.optimisticOperation =
                   IF in.mutationType = "rpc" THEN Undefined ELSE @]

\* what the executor throws for parameters in, "none" when it calls mutate
ExecutorOutcome(in, m) ==
    IF ValidationError(in) # "none" THEN ValidationError(in)
    ELSE IF BothOptimisticInputs(in) THEN "bothOptimisticInputs"
         ELSE Dispatch(in, m).threw

\* C12: a flexibleMutation or rpc call with optimisticOperation "" does what the
\* call with optimisticOperation undefined and otherwise the same parameters
\* does: it throws the same error or none, selects the identity transform, and
\* its promise and callbacks get the envelopes of that call.
C12_EmptyStringIsUndefined ==
    \A c \in DOMAIN call :
        EmptyOperation(c) =>
            LET in == WithUndefinedOperation(call[c].in)
                m == call[c].materialized
            IN /\ call[c].thrown = ExecutorOutcome(in, m)
               /\ call[c].thrown = "none" =>
                     /\ call[c].optimisticFunc = "returnUnchangedData"
                     /\ call[c].optimisticFunc = Dispatch(in, m).optimisticFunc
                     /\ call[c].mutatorFunction = Dispatch(in, m).mutatorFunction
                     /\ call[c].optimistic = returnUnchangedData(call[c].committed).snap
               /\ call[c].thrown # "none" => promise[c].state = "rejected"
               /\ promise[c].state = "fulfilled" =>
                     promise[c].value \in
                        { Some(PendingEnvelope(in, m)),
                          Some(SuccessEnvelope(in, m, call[c].response)),
                          Some(ErrorEnvelope(in, m, call[c].err)) }
               /\ \A i \in 1..Len(onMutateSuccessCalls[c]) :
                     onMutateSuccessCalls[c][i] = SuccessEnvelope(in, m, call[c].response)
               /\ \A i \in 1..Len(onErrorCalls[c]) :
                     onErrorCalls[c][i] = ProviderError(in, m, call[c].err)

\* an rpc call with optimisticOperation "" and a speculative row that went
\* through: identity transform, success envelope in the promise
C12_Witness ==
    \E c \in DOMAIN call :
        /\ EmptyOperation(c)
        /\ call[c].in.mutationType = "rpc"
        /\ IsSome(call[c].in.optimisticRow)
        /\ call[c].optimisticFunc = "returnUnchangedData"
        /\ call[c].phase = "done"
        /\ promise[c].state = "fulfilled"
        /\ PromiseEnvelope(c).status = "success"

\* no call is running: every call is not made yet, has thrown, or has had its
\* handlers run
NoMutationInFlight ==
    \A c \in DOMAIN call : call[c].phase \in {"idle", "threw", "done"}

\* some call comes to its end in this step: its executor throws, or its last
\* handler runs
CallFinishes ==
    \E c \in DOMAIN call :
        /\ call[c].phase \notin {"threw", "done"}
        /\ call'[c].phase \in {"threw", "done"}

\* C13: isMutating is set back to false on the success path and on the failure
\* path: after the step in which a call comes to its end, with no other call
\* in flight, isMutating is false.
C13_IsMutatingReset ==
    [][(CallFinishes /\ NoMutationInFlight') => ~isMutating']_vars

(***************************************************************************)
(* Further properties of the transforms (TransformSpec) and of the         *)
(* selector (ChooseSpec).                                                  *)
(***************************************************************************)
RowTransformStep ==
    /\ optimisticStep.func \in
          {"addRowOptimistically", "editRowOptimistically", "deleteRowOptimistically"}
    /\ ~optimisticStep.threw

\* C14: with count tracked, an insert, edit or delete transform changes the
\* count by as much as it changes the number of rows, so a snapshot whose count
\* is its number of rows is followed by one whose count is its number of rows.
C14_CountTracksLength ==
    (Tracked /\ RowTransformStep) =>
        /\ CountOrZero(cache) - CountOrZero(optimisticStep.before) =
              Len(RowsAfter) - Len(RowsBefore)
        /\ (~optimisticStep.before.absent
             /\ optimisticStep.before.count = Some(Len(RowsBefore))) =>
              cache.count = Some(Len(RowsAfter))

\* C15: chooseOptimisticFunction follows the rule table: identity for an unset
\* operation; for addRow, editRow, deleteRow the insert, edit, delete transform
\* exactly when a speculative row is given and identity otherwise; for
\* replaceData the replace transform, which yields the given dataset and count
\* whatever the snapshot, exactly when a dataset is given and identity
\* otherwise; it throws for every other requested value.
C15_RuleTable ==
    selection.called =>
        LET op == selection.requestedOptimisticOperation
            row == selection.optimisticRowFinal
            data == selection.optimisticDataFinal
            result == selection.result
            identity == Chosen("returnUnchangedData")
        IN /\ op = Undefined => result = identity
           /\ op = "addRow" =>
                 /\ IsSome(row) => result = Chosen("addRowOptimistically")
                 /\ ~IsSome(row) => result = identity
           /\ op = "editRow" =>
                 /\ IsSome(row) => result = Chosen("editRowOptimistically")
                 /\ ~IsSome(row) => result = identity
           /\ op = "deleteRow" =>
                 /\ IsSome(row) => result = Chosen("deleteRowOptimistically")
                 /\ ~IsSome(row) => result = identity
           /\ op = "replaceData" =>
                 /\ IsSome(data) =>
                       /\ result = Chosen("replaceDataOptimistically")
                       /\ ApplyOptimisticFunc(result.func, memoizedOrderBy, returnCount,
                              uniqueIdentifierField, cache, row, data,
                              selection.optimisticCount)
                            = Returned(Snapshot(data[1],
                                  IF selection.optimisticCount \in {None, Some(0)}
                                  THEN None ELSE selection.optimisticCount))
                 /\ ~IsSome(data) => result = identity
           /\ op \notin OptimisticOperations \cup {Undefined} => result.threw
           /\ op \in OptimisticOperations \cup {Undefined} => ~result.threw

\* deleteRow requested with a dataset and no row: identity chosen
C15_Witness ==
    /\ selection.called
    /\ selection.requestedOptimisticOperation = "deleteRow"
    /\ selection.optimisticRowFinal = None
    /\ IsSome(selection.optimisticDataFinal)
    /\ selection.result = Chosen("returnUnchangedData")

\* C16: on an absent snapshot the identity, edit, delete and replace transforms
\* return {data: null, count: null} without attempting the operation, and the
\* insert transform returns a snapshot that holds the speculative row alone.
C16_AbsentSnapshot ==
    (optimisticStep.n > 0 /\ optimisticStep.before.absent) =>
        /\ optimisticStep.func \in {"returnUnchangedData", "editRowOptimistically",
                                    "deleteRowOptimistically", "replaceDataOptimistically"} =>
              /\ ~optimisticStep.threw
              /\ cache = NullSnapshot
        /\ optimisticStep.func = "addRowOptimistically" =>
              /\ ~cache.absent
              /\ cache.data = Some(<<StepRow>>)

(***************************************************************************)
(* Rollback (Spec), materialization and concurrent calls (ConcurrentSpec), *)
(* callbacks (Spec).                                                       *)
(***************************************************************************)
\* the promise of cache.mutate of the call has rejected
MutateRejected(c) ==
    /\ call[c].settled = "rejected"
    /\ call[c].phase \in {"catchPending", "done"}

\* C17 as stated: every cache.mutate call asks for rollbackOnError, no
\* populateCache and revalidate; after a call whose mutation rejected has
\* settled, the cache holds the snapshot it held before the optimistic
\* transform of the call and the speculative row of the call is not in it.
C17_RollbackOnRejection ==
    \A c \in DOMAIN call :
        /\ call[c].mutateCalls > 0 =>
              call[c].mutateOptions =
                 [populateCache |-> FALSE, revalidate |-> TRUE, rollbackOnError |-> TRUE]
        /\ MutateRejected(c) =>
              /\ cache = call[c].committed
              /\ IsSome(FinalRow(c)) =>
                    FinalRow(c)[1] \notin RangeOf(DataOrEmpty(cache))

\* C17: every cache.mutate call asks for rollbackOnError, no populateCache and
\* revalidate; when the mutation of a call rejects, the cache first holds the
\* snapshot it held before the optimistic transform of the call, and after the
\* call has settled it holds what the refetch brought from the server, which
\* need not be that snapshot; from the rejection on the speculative row of the
\* call is not in the cache. A producer that throws leaves the cache as it was.
C17_RollbackThenRefetch ==
    \A c \in DOMAIN call :
        /\ call[c].mutateCalls > 0 =>
              call[c].mutateOptions =
                 [populateCache |-> FALSE, revalidate |-> TRUE, rollbackOnError |-> TRUE]
        /\ call[c].settled = "rejected" =>
              /\ call[c].phase = "revalidating" => cache = call[c].committed
              /\ (MutateRejected(c) /\ call[c].err = "backend") =>
                    /\ cache = call[c].refetched
                    /\ cache \in RefetchedSnapshots(returnCount)
              /\ (MutateRejected(c) /\ call[c].err # "backend") =>
                    cache = call[c].committed
              /\ IsSome(FinalRow(c)) =>
                    FinalRow(c)[1] \notin RangeOf(DataOrEmpty(cache))

\* an insert with a speculative row into a cache that had fetched nothing,
\* whose mutation rejected: the optimistic snapshot held the row, and after the
\* call the cache holds the refetched rows, not the snapshot it held before
C17_Witness ==
    \E c \in DOMAIN call :
        /\ call[c].in.mutationType = "insert"
        /\ call[c].err = "backend"
        /\ call[c].phase = "done"
        /\ IsSome(FinalRow(c))
        /\ FinalRow(c)[1] \in RangeOf(DataOrEmpty(call[c].optimistic))
        /\ call[c].committed = UndefinedSnapshot
        /\ cache = FetchedSnapshot(returnCount)
        /\ cache # call[c].committed

\* the executor of the call got as far as the materialization
MaterializationRan(c) ==
    /\ Started(c)
    /\ call[c].thrown \in {"none", "invalidOperation", "invalidOptimisticOperation"}

\* row with the optimistic stamp of stamped
StampedAs(row, stamped) ==
    [row EXCEPT !.optimisticId = stamped.optimisticId, !.isOptimistic = TRUE]

\* the optimisticData field an envelope is to carry for the call
EchoOf(c) ==
    IF IsSome(FinalRow(c)) THEN [shape |-> "row", rows |-> FinalRow(c)]
    ELSE IF call[c].in.optimisticData.shape = "rows"
         THEN [shape |-> "rows", rows |-> call[c].in.optimisticData.rows]
         ELSE [shape |-> "null", rows |-> <<>>]

\* C18: after the materialization at most one of optimisticRowFinal and
\* optimisticDataFinal is defined; an optimisticRow or a non-array object
\* optimisticData becomes the row, stamped with isOptimistic and an optimisticId
\* that no other call's row carries; an array optimisticData is the dataset,
\* unchanged; every envelope and error of the call echoes the row, else the
\* dataset, else null.
C18_Materialization ==
    \A c \in DOMAIN call :
        MaterializationRan(c) =>
            LET in == call[c].in
                m == call[c].materialized
            IN /\ ~(IsSome(m.optimisticRowFinal) /\ IsSome(m.optimisticDataFinal))
               /\ IsSome(in.optimisticRow) =>
                     /\ IsSome(m.optimisticRowFinal)
                     /\ m.optimisticRowFinal[1] =
                           StampedAs(in.optimisticRow[1], m.optimisticRowFinal[1])
               /\ in.optimisticData.shape = "row" =>
                     /\ IsSome(m.optimisticRowFinal)
                     /\ m.optimisticRowFinal[1] =
                           StampedAs(in.optimisticData.rows[1], m.optimisticRowFinal[1])
               /\ in.optimisticData.shape = "rows" =>
                     m.optimisticDataFinal = Some(in.optimisticData.rows)
               /\ (in.optimisticRow = None /\ in.optimisticData.shape # "row") =>
                     m.optimisticRowFinal = None
               /\ in.optimisticData.shape # "rows" => m.optimisticDataFinal = None
               /\ IsSome(m.optimisticRowFinal) =>
                     /\ m.optimisticRowFinal[1].optimisticId \in 1..uuidCount
                     /\ \A d \in DOMAIN call \ {c} :
                           (MaterializationRan(d) /\ IsSome(FinalRow(d))) =>
                              FinalRow(d)[1].optimisticId #
                                 m.optimisticRowFinal[1].optimisticId
               /\ promise[c].state = "fulfilled" =>
                     PromiseEnvelope(c).optimisticData = EchoOf(c)
               /\ \A i \in 1..Len(onMutateSuccessCalls[c]) :
                     onMutateSuccessCalls[c][i].optimisticData = EchoOf(c)
               /\ \A i \in 1..Len(onErrorCalls[c]) :
                     onErrorCalls[c][i].optimisticData = EchoOf(c)

\* one call stamped its optimisticRow, the other its single-object
\* optimisticData, with different tokens; the second resolved with an error
\* envelope that echoes its row
C18_Witness ==
    /\ DOMAIN call = ConcurrentCallIds
    /\ IsSome(call[1].in.optimisticRow) /\ IsSome(FinalRow(1))
    /\ call[2].in.optimisticData.shape = "row" /\ IsSome(FinalRow(2))
    /\ FinalRow(1)[1].optimisticId # FinalRow(2)[1].optimisticId
    /\ FinalRow(2)[1].isOptimistic
    /\ promise[2].state = "fulfilled"
    /\ PromiseEnvelope(2).status = "error"
    /\ PromiseEnvelope(2).optimisticData = [shape |-> "row", rows |-> FinalRow(2)]

\* C19: of two overlapping calls, each one that passed validation and has had
\* its handlers run has a promise that was resolved exactly once, with an
\* envelope of its own action, dataForSupabase, optimisticData and
\* customMetadata, and got the callback of its own outcome with its own
\* envelope or error, whatever the other call did.
C19_ConcurrentCallsIndependent ==
    \A c \in DOMAIN call :
        (PassedValidation(c) /\ call[c].phase = "done") =>
            LET in == call[c].in
                m == call[c].materialized
            IN /\ promise[c].state = "fulfilled"
               /\ promise[c].resolveCalls = 1
               /\ PromiseEnvelope(c).action = in.mutationType
               /\ PromiseEnvelope(c).dataForSupabase = in.dataForSupabase
               /\ PromiseEnvelope(c).customMetadata = in.customMetadata
               /\ PromiseEnvelope(c).optimisticData = EchoOf(c)
               /\ call[c].settled = "resolved" =>
                     /\ onMutateSuccessCalls[c] =
                           <<SuccessEnvelope(in, m, call[c].response)>>
                     /\ onErrorCalls[c] = <<>>
                     /\ ~in.returnImmediately =>
                           PromiseEnvelope(c) = SuccessEnvelope(in, m, call[c].response)
               /\ call[c].settled = "rejected" =>
                     /\ onErrorCalls[c] = <<ProviderError(in, m, call[c].err)>>
                     /\ onMutateSuccessCalls[c] = <<>>
                     /\ ~in.returnImmediately =>
                           PromiseEnvelope(c) = ErrorEnvelope(in, m, call[c].err)

\* C20: for every call the success callback is called only if cache.mutate
\* resolved, the error callback only if cache.mutate rejected, and never both.
C20_CallbacksExclusive ==
    \A c \in DOMAIN call :
        /\ Len(onMutateSuccessCalls[c]) > 0 => call[c].settled = "resolved"
        /\ Len(onErrorCalls[c]) > 0 => call[c].settled = "rejected"
        /\ ~(Len(onMutateSuccessCalls[c]) > 0 /\ Len(onErrorCalls[c]) > 0)

\* nothing of the call is left to run: its executor threw, or its real mutation
\* has settled and its handlers have run
Finished(c) == call[c].phase \in {"threw", "done"}

\* C21: the promise of a call does not stay pending: once the real mutation has
\* settled and the handlers of the call have run (or its executor has thrown),
\* the promise is fulfilled with a pending, success or error envelope or is
\* rejected, also when a callback has thrown.
C21_PromiseSettles ==
    \A c \in DOMAIN call :
        Finished(c) =>
            \/ promise[c].state = "rejected"
            \/ /\ promise[c].state = "fulfilled"
               /\ PromiseEnvelope(c).status \in {"pending", "success", "error"}

====
